---- MODULE Spec2Model ----
(***************************************************************************)
(* Backup and restore subsystem of the aivest client: the local key-value  *)
(* store (utils/storage.ts), the SecureBackupService engine and its        *)
(* debounced auto-backup timer (services, simplified variant), and the     *)
(* remote document store user_backups/{userId}.                            *)
(***************************************************************************)
EXTENDS Integers, Sequences, FiniteSets, TLC

\* ------------------------------------------------------------------ bounds
MaxAmount == 2
MaxTime == 1
MaxExpenses == 1
MaxGoals == 1
MaxFaults == 1
MaxRemoteWrites == 2
MaxMutations == 2
MaxSteps == 4
MaxCalls == 3
SchedMaxTime == 12
MaxLogouts == 1
MaxEdits == 1
MaxFlights == 2

\* The quiet period of the auto-backup timer, in minutes.
QuietPeriod == 5

Users == {"u1", "u2"}
Categories == {"Food & Dining", "Travel"}
Amounts == 1..MaxAmount
Times == 0..MaxTime
DeviceIds == {"device_a", "device_b"}

DATA_VERSION == "1.0"

\* A JSON number as the remote store holds it, and a non-number value.
JsNumber(n) == [t |-> "number", n |-> n]
JsString == [t |-> "string", n |-> 0]
typeof(v) == v.t

VARIABLES
  expenses,       \* AsyncStorage aivest_expenses (absent = <<>>)
  budgets,        \* AsyncStorage aivest_budgets (absent = empty map)
  emergencyFund,  \* AsyncStorage aivest_emergency_fund (absent = the default)
  savingsGoals,   \* AsyncStorage aivest_savings_goals (absent = <<>>)
  remote,         \* Firestore collection user_backups: userId -> document
  now,            \* the wall clock
  lastCall,       \* the last operation that completed, with its result
  backedUp,       \* history: local state seen by the backup that wrote remote[u]
  base,           \* history: ledger and goals before the current run of restores
  remoteWrites,   \* number of writes the remote store has accepted
  mutations,      \* number of screen actions that wrote the local store
  uid,            \* firebaseUser.uid of the signed-in user
  faults,         \* number of storage, digest and network faults so far
  steps,          \* number of operations so far
  timers,         \* the pending setTimeout timers of the JavaScript runtime
  backupTimeout,  \* SecureBackupService.backupTimeout (0 = null)
  nextTimerId,    \* the handle the next setTimeout returns
  events,         \* history: schedule calls and timer-driven backups, in order
  changedAt,      \* history: time of the last screen action (-1 = none)
  changedBy,      \* history: the users signed in when a screen action ran
  flights,        \* the backupToCloud / restoreFromCloud calls started by a
                  \* trigger of the application, and how far each has got
  flightsStarted, \* number of such calls started so far
  backupLoading   \* ProfileScreen's backupLoading state

localVars == <<expenses, budgets, emergencyFund, savingsGoals>>

schedVars == <<timers, backupTimeout, nextTimerId, events>>

flowVars == <<flights, flightsStarted, backupLoading>>

vars == <<expenses, budgets, emergencyFund, savingsGoals, remote, now,
          lastCall, backedUp, base, remoteWrites, mutations, uid, faults, steps,
          timers, backupTimeout, nextTimerId, events,
          changedAt, changedBy, flights, flightsStarted, backupLoading>>

\* ------------------------------------------------------ utils/storage.ts
getData(stored, defaultValue, readOk) == IF readOk THEN stored ELSE defaultValue

storeData(old, value, writeOk) == IF writeOk THEN value ELSE old

RECURSIVE InsertByDate(_, _)
InsertByDate(sorted, e) ==
  IF sorted = <<>> THEN <<e>>
  ELSE IF Head(sorted).date >= e.date
       THEN <<Head(sorted)>> \o InsertByDate(Tail(sorted), e)
       ELSE <<e>> \o sorted

RECURSIVE SortByDateDesc(_)
SortByDateDesc(s) ==
  IF s = <<>> THEN <<>>
  ELSE LET rest == SortByDateDesc(SubSeq(s, 1, Len(s) - 1))
       IN InsertByDate(rest, s[Len(s)])

expenseStorage_getAll(readOk) == SortByDateDesc(getData(expenses, <<>>, readOk))

expenseStorage_add(input, readOk, writeOk) ==
  LET all == expenseStorage_getAll(readOk)
      newExpense == [id |-> now, amount |-> input.amount,
                     category |-> input.category, date |-> input.date,
                     createdAt |-> now]
  IN storeData(expenses, <<newExpense>> \o all, writeOk)

expenseStorage_delete(id, readOk, writeOk) ==
  LET all == expenseStorage_getAll(readOk)
  IN storeData(expenses, SelectSeq(all, LAMBDA e : e.id # id), writeOk)

EmptyBudgets == [c \in {} |-> 0]

budgetStorage_getAll(stored, readOk) == getData(stored, EmptyBudgets, readOk)

\* Faulty variant: set stores the new budget alone instead of adding it to
\* the stored ones.
budgetStorage_set_replacing(stored, category, amount, readOk, writeOk) ==
  storeData(stored,
            [c \in {category} |-> [amount |-> amount, updatedAt |-> now]],
            writeOk)

budgetStorage_set(stored, category, amount, readOk, writeOk) ==
  LET all == budgetStorage_getAll(stored, readOk)
      newBudget == [amount |-> amount, updatedAt |-> now]
  IN storeData(stored,
               [c \in DOMAIN all \cup {category} |->
                  IF c = category THEN newBudget ELSE all[c]],
               writeOk)

budgetStorage_delete(stored, category, readOk, writeOk) ==
  LET all == budgetStorage_getAll(stored, readOk)
  IN storeData(stored, [c \in DOMAIN all \ {category} |-> all[c]], writeOk)

DefaultEmergencyFund == [target |-> 0, current |-> 0, updatedAt |-> {}]

emergencyFundStorage_get(stored, readOk) ==
  getData(stored, DefaultEmergencyFund, readOk)

\* Faulty variant: the update adds to the stored amounts instead of replacing them.
emergencyFundStorage_update_adding(stored, target, current, readOk, writeOk) ==
  LET cur == emergencyFundStorage_get(stored, readOk)
      updated == [cur EXCEPT !.target = cur.target + target,
                             !.current = cur.current + current,
                             !.updatedAt = {now}]
  IN storeData(stored, updated, writeOk)

emergencyFundStorage_update(stored, target, current, readOk, writeOk) ==
  LET cur == emergencyFundStorage_get(stored, readOk)
      updated == [cur EXCEPT !.target = target, !.current = current,
                             !.updatedAt = {now}]
  IN storeData(stored, updated, writeOk)

savingsGoalStorage_getAll(readOk) == getData(savingsGoals, <<>>, readOk)

savingsGoalStorage_add(input, readOk, writeOk) ==
  LET all == savingsGoalStorage_getAll(readOk)
      newGoal == [id |-> now, name |-> input.name, target |-> input.target,
                  current |-> input.current, createdAt |-> now]
  IN storeData(savingsGoals, Append(all, newGoal), writeOk)

savingsGoalStorage_delete(id, readOk, writeOk) ==
  LET all == savingsGoalStorage_getAll(readOk)
  IN storeData(savingsGoals, SelectSeq(all, LAMBDA g : g.id # id), writeOk)

\* The four collections of the local store.
Local == [expenses |-> expenses, budgets |-> budgets,
          emergencyFund |-> emergencyFund, savingsGoals |-> savingsGoals]

\* --------------------------------------------- services: SecureBackupService
LocalSites == {"expenses", "budgets", "emergencyFund", "savingsGoals"}

\* The order in which an object yields its keys: the order in which they
\* were inserted, or the sorted order in which a document store may hand a
\* map back.
KeyOrders == {"insertion", "sorted"}

\* JSON.stringify of a payload whose keys come in the given order, and the
\* SHA-256 digest of a string.
JSON_stringify(data, keys) == [json |-> data, keys |-> keys]

digestStringAsync(str) == [kind |-> "sha256", of |-> str]

createDataHash(str, digestOk) ==
  IF digestOk THEN digestStringAsync(str)
  ELSE [kind |-> "fallback_hash", at |-> now]

\* The snapshot collectPersonalData returns from its catch block.
EmptySnapshot ==
  [kind |-> "object",
   expenses |-> <<>>,
   budgets |-> [c \in {} |-> [amount |-> JsNumber(0), updatedAt |-> 0]],
   emergencyFund |-> [target |-> JsNumber(0), current |-> JsNumber(0),
                      updatedAt |-> {}],
   savingsGoals |-> <<>>,
   metadata |-> [totalTransactions |-> 0, lastBackup |-> now,
                 dataVersion |-> DATA_VERSION]]

\* Faulty variant: a read that fails yields the stored value all the same.
collectPersonalData_ignoringFaults(rd) ==
  LET exp == expenseStorage_getAll(TRUE)
  IN [kind |-> "object",
      expenses |-> exp,
      budgets |-> [c \in DOMAIN budgets |->
                     [amount |-> JsNumber(budgets[c].amount),
                      updatedAt |-> budgets[c].updatedAt]],
      emergencyFund |-> [target |-> JsNumber(emergencyFund.target),
                         current |-> JsNumber(emergencyFund.current),
                         updatedAt |-> emergencyFund.updatedAt],
      savingsGoals |-> savingsGoals,
      metadata |-> [totalTransactions |-> Len(exp), lastBackup |-> now,
                    dataVersion |-> DATA_VERSION]]

\* Faulty variant: the count is taken from the store, not from the list read.
collectPersonalData_countStored(rd) ==
  LET exp == expenseStorage_getAll("expenses" \notin rd)
      bud == budgetStorage_getAll(budgets, "budgets" \notin rd)
      ef == emergencyFundStorage_get(emergencyFund, "emergencyFund" \notin rd)
      goals == savingsGoalStorage_getAll("savingsGoals" \notin rd)
  IN [kind |-> "object",
      expenses |-> exp,
      budgets |-> [c \in DOMAIN bud |->
                     [amount |-> JsNumber(bud[c].amount),
                      updatedAt |-> bud[c].updatedAt]],
      emergencyFund |-> [target |-> JsNumber(ef.target),
                         current |-> JsNumber(ef.current),
                         updatedAt |-> ef.updatedAt],
      savingsGoals |-> goals,
      metadata |-> [totalTransactions |-> Len(expenses), lastBackup |-> now,
                    dataVersion |-> DATA_VERSION]]

\* The PersonalBackupData object collectPersonalData assembles from what its
\* four reads returned.
PersonalBackupData(exp, bud, ef, goals) ==
  [kind |-> "object",
   expenses |-> exp,
   budgets |-> [c \in DOMAIN bud |->
                  [amount |-> JsNumber(bud[c].amount),
                   updatedAt |-> bud[c].updatedAt]],
   emergencyFund |-> [target |-> JsNumber(ef.target),
                      current |-> JsNumber(ef.current),
                      updatedAt |-> ef.updatedAt],
   savingsGoals |-> goals,
   metadata |-> [totalTransactions |-> Len(exp), lastBackup |-> now,
                 dataVersion |-> DATA_VERSION]]

collectPersonalData(rd) ==
  PersonalBackupData(
    expenseStorage_getAll("expenses" \notin rd),
    budgetStorage_getAll(budgets, "budgets" \notin rd),
    emergencyFundStorage_get(emergencyFund, "emergencyFund" \notin rd),
    savingsGoalStorage_getAll("savingsGoals" \notin rd))

RECURSIVE RestoreBudgets(_, _, _, _, _)
RestoreBudgets(stored, entries, order, rd, wr) ==
  IF order = <<>> THEN stored
  ELSE LET c == Head(order)
           b == entries[c]
           next == IF typeof(b.amount) = "number"
                   THEN budgetStorage_set(stored, c, b.amount.n,
                                          c \notin rd, c \notin wr)
                   ELSE stored
       IN RestoreBudgets(next, entries, Tail(order), rd, wr)

RECURSIVE AddAllExpenses(_, _)
AddAllExpenses(stored, list) ==
  IF list = <<>> THEN stored
  ELSE AddAllExpenses(<<Head(list)>> \o stored, Tail(list))

\* Faulty variant: the restore of the encoded variant, which also writes the ledger
\* entries and the goals of the payload into the local store.
restorePersonalData_all(data, order, rd, wr) ==
  [threw |-> data.kind # "object",
   local |->
     [expenses |-> IF data.kind = "object" /\ "expenses" \in DOMAIN data
                   THEN AddAllExpenses(expenses, data.expenses)
                   ELSE expenses,
      budgets |-> IF data.kind = "object" /\ "budgets" \in DOMAIN data
                  THEN RestoreBudgets(budgets, data.budgets, order, rd, wr)
                  ELSE budgets,
      emergencyFund |-> emergencyFund,
      savingsGoals |-> IF data.kind = "object" /\ "savingsGoals" \in DOMAIN data
                       THEN savingsGoals \o data.savingsGoals
                       ELSE savingsGoals]]

\* Faulty variant: the savings target is not restored.
restorePersonalData_budgetsOnly(data, order, rd, wr) ==
  [threw |-> data.kind # "object",
   local |->
     [expenses |-> expenses,
      budgets |-> IF data.kind = "object" /\ "budgets" \in DOMAIN data
                  THEN RestoreBudgets(budgets, data.budgets, order, rd, wr)
                  ELSE budgets,
      emergencyFund |-> emergencyFund,
      savingsGoals |-> savingsGoals]]

\* restorePersonalData: [threw, local]; order is the order in which
\* Object.entries yields the budget categories of the fetched payload.
restorePersonalData(data, order, rd, wr) ==
  IF data.kind # "object"
  THEN [threw |-> TRUE,
        local |-> [expenses |-> expenses, budgets |-> budgets,
                   emergencyFund |-> emergencyFund,
                   savingsGoals |-> savingsGoals]]
  ELSE [threw |-> FALSE,
        local |->
          [expenses |-> expenses,
           budgets |-> IF "budgets" \in DOMAIN data
                       THEN RestoreBudgets(budgets, data.budgets, order, rd, wr)
                       ELSE budgets,
           emergencyFund |->
             IF /\ "emergencyFund" \in DOMAIN data
                /\ typeof(data.emergencyFund.target) = "number"
                /\ typeof(data.emergencyFund.current) = "number"
             THEN emergencyFundStorage_update(emergencyFund,
                    data.emergencyFund.target.n, data.emergencyFund.current.n,
                    "emergencyFund" \notin rd, "emergencyFund" \notin wr)
             ELSE emergencyFund,
           savingsGoals |-> savingsGoals]]

EnvelopeFields ==
  {"userId", "data", "dataHash", "version", "lastUpdated", "deviceInfo"}

\* Faulty variant: setDoc with {merge: true}, which keeps the fields of the stored
\* document that the new one does not name.
setDoc_merge(userId, doc) ==
  [v \in DOMAIN remote \cup {userId} |->
     IF v # userId THEN remote[v]
     ELSE IF userId \notin DOMAIN remote THEN doc
     ELSE [f \in DOMAIN remote[userId] \cup DOMAIN doc |->
             IF f \in DOMAIN doc THEN doc[f] ELSE remote[userId][f]]]

\* setDoc without merge: the document of userId is replaced as a whole.
setDoc(userId, doc) ==
  [v \in DOMAIN remote \cup {userId} |-> IF v = userId THEN doc ELSE remote[v]]

\* Faulty variant: a failure of the digest primitive aborts the backup.
backupToCloud_try_digestThrows(userId, rd, digestOk, deviceId, upsertOk) ==
  LET personalData == collectPersonalData(rd)
      backup == [userId |-> userId, data |-> personalData,
                 dataHash |->
                   digestStringAsync(JSON_stringify(personalData, "insertion")),
                 version |-> DATA_VERSION,
                 lastUpdated |-> now,
                 deviceInfo |-> [platform |-> "React Native",
                                 version |-> DATA_VERSION,
                                 deviceId |-> deviceId]]
  IN IF upsertOk /\ digestOk
     THEN [result |-> "true", remote |-> setDoc(userId, backup)]
     ELSE [result |-> "threw", remote |-> remote]

\* The SimpleBackup document backupToCloud builds around a snapshot.
SimpleBackup(userId, personalData, dataHash, deviceId) ==
  [userId |-> userId, data |-> personalData,
   dataHash |-> dataHash, version |-> DATA_VERSION,
   lastUpdated |-> now,
   deviceInfo |-> [platform |-> "React Native",
                   version |-> DATA_VERSION,
                   deviceId |-> deviceId]]

\* The body of backupToCloud's try block: [result, remote].
backupToCloud_try(userId, rd, digestOk, deviceId, upsertOk) ==
  LET personalData == collectPersonalData(rd)
      dataString == JSON_stringify(personalData, "insertion")
      dataHash == createDataHash(dataString, digestOk)
      backup == SimpleBackup(userId, personalData, dataHash, deviceId)
  IN IF upsertOk
     THEN [result |-> "true", remote |-> setDoc(userId, backup)]
     ELSE [result |-> "threw", remote |-> remote]

\* Faulty variant: the catch block reports success.
backupToCloud_catchTrue(userId, rd, digestOk, deviceId, upsertOk) ==
  LET r == backupToCloud_try(userId, rd, digestOk, deviceId, upsertOk)
  IN IF r.result = "threw" THEN [r EXCEPT !.result = "true"] ELSE r

backupToCloud(userId, rd, digestOk, deviceId, upsertOk) ==
  LET r == backupToCloud_try(userId, rd, digestOk, deviceId, upsertOk)
  IN IF r.result = "threw" THEN [r EXCEPT !.result = "false"] ELSE r

\* Faulty variant: a digest mismatch aborts the restore, as in the encoded variant.
restoreFromCloud_try_strict(userId, fetchOk, digestOk, keys, order, rd, wr) ==
  LET unchanged == [result |-> "false", warned |-> FALSE, applied |-> FALSE,
                    local |-> Local]
  IN IF ~fetchOk THEN [unchanged EXCEPT !.result = "threw"]
     ELSE IF userId \notin DOMAIN remote THEN unchanged
     ELSE LET backup == remote[userId]
          IN IF \/ "data" \notin DOMAIN backup
                \/ backup.data.kind # "object"
             THEN unchanged
             ELSE LET computedHash ==
                        createDataHash(JSON_stringify(backup.data, keys),
                                       digestOk)
                      mismatch == \/ "dataHash" \notin DOMAIN backup
                                  \/ computedHash # backup.dataHash
                      restored == restorePersonalData(backup.data, order, rd, wr)
                  IN IF mismatch THEN [unchanged EXCEPT !.result = "threw"]
                     ELSE [result |-> IF restored.threw THEN "threw" ELSE "true",
                           warned |-> FALSE, applied |-> TRUE,
                           local |-> restored.local]

\* Faulty variant: a document without a usable payload counts as an empty backup.
restoreFromCloud_try_lenient(userId, fetchOk, digestOk, keys, order, rd, wr) ==
  LET unchanged == [result |-> "false", warned |-> FALSE, applied |-> FALSE,
                    local |-> Local]
  IN IF ~fetchOk THEN [unchanged EXCEPT !.result = "threw"]
     ELSE IF userId \notin DOMAIN remote THEN unchanged
     ELSE LET backup == remote[userId]
          IN IF \/ "data" \notin DOMAIN backup
                \/ backup.data.kind # "object"
             THEN [unchanged EXCEPT !.result = "true"]
             ELSE LET computedHash ==
                        createDataHash(JSON_stringify(backup.data, keys),
                                       digestOk)
                      mismatch == \/ "dataHash" \notin DOMAIN backup
                                  \/ computedHash # backup.dataHash
                      restored == restorePersonalData(backup.data, order, rd, wr)
                  IN [result |-> IF restored.threw THEN "threw" ELSE "true",
                      warned |-> mismatch, applied |-> TRUE,
                      local |-> restored.local]

\* The body of restoreFromCloud's try block: [result, warned, applied, local].
restoreFromCloud_try(userId, fetchOk, digestOk, keys, order, rd, wr) ==
  LET unchanged == [result |-> "false", warned |-> FALSE, applied |-> FALSE,
                    local |-> Local]
  IN IF ~fetchOk THEN [unchanged EXCEPT !.result = "threw"]
     ELSE IF userId \notin DOMAIN remote THEN unchanged
     ELSE LET backup == remote[userId]
          IN IF \/ "data" \notin DOMAIN backup
                \/ backup.data.kind # "object"
             THEN unchanged
             ELSE LET computedHash ==
                        createDataHash(JSON_stringify(backup.data, keys),
                                       digestOk)
                      mismatch == \/ "dataHash" \notin DOMAIN backup
                                  \/ computedHash # backup.dataHash
                      restored == restorePersonalData(backup.data, order, rd, wr)
                  IN [result |-> IF restored.threw THEN "threw" ELSE "true",
                      warned |-> mismatch, applied |-> TRUE,
                      local |-> restored.local]

restoreFromCloud(userId, fetchOk, digestOk, keys, order, rd, wr) ==
  LET r == restoreFromCloud_try(userId, fetchOk, digestOk, keys, order, rd, wr)
  IN IF r.result = "threw" THEN [r EXCEPT !.result = "false"] ELSE r

\* Faulty variant: the snapshot object is tested instead of backupDoc.exists().
hasBackup_try_truthy(userId, fetchOk) ==
  IF ~fetchOk THEN "threw" ELSE "true"

hasBackup_try(userId, fetchOk) ==
  IF ~fetchOk THEN "threw"
  ELSE IF userId \in DOMAIN remote THEN "true" ELSE "false"

\* Faulty variant: no catch block.
hasBackup_noCatch(userId, fetchOk) == hasBackup_try(userId, fetchOk)

hasBackup(userId, fetchOk) ==
  LET r == hasBackup_try(userId, fetchOk)
  IN IF r = "threw" THEN "false" ELSE r

NoInfo == [none |-> TRUE]

\* x?.length || 0 over a field that may be missing.
LengthOrZero(data, field) == IF field \in DOMAIN data THEN Len(data[field]) ELSE 0

\* Faulty variant: the number of expenses is read from a field a list does
\* not have, so that the count of expenses is always 0.
getBackupInfo_try_noCount(userId, fetchOk) ==
  IF ~fetchOk THEN [result |-> "threw", info |-> NoInfo]
  ELSE IF userId \notin DOMAIN remote THEN [result |-> "null", info |-> NoInfo]
  ELSE LET backup == remote[userId]
           hasData == "data" \in DOMAIN backup
           isObj == hasData /\ backup.data.kind = "object"
           dataSize ==
             [expenses |-> 0,
              savingsGoals |-> IF isObj THEN LengthOrZero(backup.data, "savingsGoals") ELSE 0,
              budgetCategories |->
                IF isObj /\ "budgets" \in DOMAIN backup.data
                THEN Cardinality(DOMAIN backup.data.budgets) ELSE 0]
       IN [result |-> "info",
           info |-> [lastUpdated |-> backup.lastUpdated,
                     version |-> backup.version,
                     deviceInfo |-> backup.deviceInfo,
                     hasData |-> hasData,
                     dataSize |-> dataSize]]

\* The body of getBackupInfo's try block: [result, info].
getBackupInfo_try(userId, fetchOk) ==
  IF ~fetchOk THEN [result |-> "threw", info |-> NoInfo]
  ELSE IF userId \notin DOMAIN remote THEN [result |-> "null", info |-> NoInfo]
  ELSE LET backup == remote[userId]
           hasData == "data" \in DOMAIN backup
           isObj == hasData /\ backup.data.kind = "object"
           dataSize ==
             [expenses |-> IF isObj THEN LengthOrZero(backup.data, "expenses") ELSE 0,
              savingsGoals |-> IF isObj THEN LengthOrZero(backup.data, "savingsGoals") ELSE 0,
              budgetCategories |->
                IF isObj /\ "budgets" \in DOMAIN backup.data
                THEN Cardinality(DOMAIN backup.data.budgets) ELSE 0]
       IN [result |-> "info",
           info |-> [lastUpdated |-> backup.lastUpdated,
                     version |-> backup.version,
                     deviceInfo |-> backup.deviceInfo,
                     hasData |-> hasData,
                     dataSize |-> dataSize]]

getBackupInfo(userId, fetchOk) ==
  LET r == getBackupInfo_try(userId, fetchOk)
  IN IF r.result = "threw" THEN [result |-> "null", info |-> NoInfo] ELSE r

\* ------------------------------------------------ documents of other writers
ForeignHash == [kind |-> "foreign"]

ForeignDeviceInfo ==
  [platform |-> "React Native", version |-> DATA_VERSION, deviceId |-> "device_x"]

\* What the encoded variant of the service stores: encryptedData, no data.
EncodedVariantDoc(userId) ==
  [userId |-> userId, encryptedData |-> "b64", dataHash |-> ForeignHash,
   version |-> DATA_VERSION, lastUpdated |-> 0, deviceInfo |-> ForeignDeviceInfo]

StringDataDoc(userId) ==
  [userId |-> userId, data |-> [kind |-> "string"], dataHash |-> ForeignHash,
   version |-> DATA_VERSION, lastUpdated |-> 0, deviceInfo |-> ForeignDeviceInfo]

ForeignExpense ==
  [id |-> 0, amount |-> MaxAmount, category |-> "Food & Dining", date |-> 0, createdAt |-> 0]

ForeignGoal ==
  [id |-> 0, name |-> "Trip", target |-> MaxAmount, current |-> 0, createdAt |-> 0]

\* A payload of another shape: one amount is no number, the fund's target
\* is no number, and there are a ledger entry and a goal.
MalformedDataDoc(userId) ==
  [userId |-> userId,
   data |-> [kind |-> "object",
             expenses |-> <<ForeignExpense>>,
             budgets |-> [c \in Categories |->
                            [amount |-> IF c = "Food & Dining" THEN JsNumber(MaxAmount)
                                        ELSE JsString,
                             updatedAt |-> 0]],
             emergencyFund |-> [target |-> JsString, current |-> JsNumber(1),
                                updatedAt |-> {0}],
             savingsGoals |-> <<ForeignGoal>>],
   dataHash |-> ForeignHash, version |-> DATA_VERSION, lastUpdated |-> 0,
   deviceInfo |-> ForeignDeviceInfo]

\* A well-formed payload whose stored digest is not the digest of the payload.
TamperedDoc(userId) ==
  [userId |-> userId,
   data |-> [kind |-> "object",
             expenses |-> <<ForeignExpense>>,
             budgets |-> [c \in {"Travel"} |->
                            [amount |-> JsNumber(1), updatedAt |-> 0]],
             emergencyFund |-> [target |-> JsNumber(MaxAmount),
                                current |-> JsNumber(1), updatedAt |-> {0}],
             savingsGoals |-> <<ForeignGoal>>,
             metadata |-> [totalTransactions |-> 1, lastBackup |-> 0,
                           dataVersion |-> DATA_VERSION]],
   dataHash |-> ForeignHash, version |-> DATA_VERSION, lastUpdated |-> 0,
   deviceInfo |-> ForeignDeviceInfo]

ForeignDocs(userId) ==
  {EncodedVariantDoc(userId), StringDataDoc(userId), MalformedDataDoc(userId),
   TamperedDoc(userId)}

\* ---------------------------------------------------------------- actions
NoPre == [none |-> TRUE]

NoCall ==
  [op |-> "none", userId |-> "none", result |-> "none", warned |-> FALSE,
   applied |-> FALSE, io |-> FALSE, digestOk |-> TRUE, netOk |-> TRUE,
   info |-> NoInfo, pre |-> NoPre, preRemote |-> NoPre, after |-> "other",
   rd |-> {}, keys |-> "insertion"]

Call(op, userId, result) ==
  [NoCall EXCEPT !.op = op, !.userId = userId, !.result = result]

Step ==
  /\ steps < MaxSteps
  /\ steps' = steps + 1
  /\ UNCHANGED <<changedAt, changedBy>>
  /\ UNCHANGED flowVars

Orders(S) ==
  IF S = {} THEN {<<>>}
  ELSE {s \in [1..Cardinality(S) -> S] :
          \A i, j \in 1..Cardinality(S) : i # j => s[i] # s[j]}

Flag(ok) == IF ok THEN 0 ELSE 1

Ledger == [expenses |-> expenses, savingsGoals |-> savingsGoals]

EmptyRemote == [u \in {} |-> 0]

Init ==
  /\ expenses = <<>>
  /\ budgets = EmptyBudgets
  /\ emergencyFund = DefaultEmergencyFund
  /\ savingsGoals = <<>>
  /\ remote = EmptyRemote
  /\ now = 0
  /\ lastCall = NoCall
  /\ backedUp = EmptyRemote
  /\ base = [expenses |-> <<>>, savingsGoals |-> <<>>]
  /\ remoteWrites = 0
  /\ mutations = 0
  /\ uid = "u1"
  /\ faults = 0
  /\ steps = 0
  /\ timers = {}
  /\ backupTimeout = 0
  /\ nextTimerId = 1
  /\ events = <<>>
  /\ changedAt = -1
  /\ changedBy = {}
  /\ flights = {}
  /\ flightsStarted = 0
  /\ backupLoading = FALSE

\* What every screen action shares: one read and one write of the local
\* store, either of which may fail, and the history moved along.
Mutated(readOk, writeOk) ==
  /\ lastCall' = [Call("mutate", "none", "none") EXCEPT
                    !.io = ~(readOk /\ writeOk)]
  /\ faults + Flag(readOk) + Flag(writeOk) <= MaxFaults
  /\ faults' = faults + Flag(readOk) + Flag(writeOk)
  /\ base' = [expenses |-> expenses', savingsGoals |-> savingsGoals']
  /\ mutations < MaxMutations
  /\ mutations' = mutations + 1
  /\ UNCHANGED <<remote, now, backedUp, remoteWrites, uid>>
  /\ UNCHANGED schedVars

ExpenseInputs ==
  {[amount |-> MaxAmount, category |-> "Food & Dining", date |-> d] : d \in Times}

\* SpendingScreen.addExpense
AddExpense ==
  \E input \in ExpenseInputs, readOk, writeOk \in BOOLEAN :
    /\ Len(expenses) < MaxExpenses
    /\ expenses' = expenseStorage_add(input, readOk, writeOk)
    /\ UNCHANGED <<budgets, emergencyFund, savingsGoals>>
    /\ Mutated(readOk, writeOk)

\* SpendingScreen.deleteExpense
DeleteExpense ==
  \E i \in 1..Len(expenses), readOk, writeOk \in BOOLEAN :
    /\ expenses' = expenseStorage_delete(expenses[i].id, readOk, writeOk)
    /\ UNCHANGED <<budgets, emergencyFund, savingsGoals>>
    /\ Mutated(readOk, writeOk)

\* SpendingScreen.setBudgetForCategory: an amount of 0 removes the budget.
SetBudgetForCategory ==
  \E category \in Categories, amount \in 0..MaxAmount,
     readOk, writeOk \in BOOLEAN :
    /\ budgets' = IF amount = 0
                  THEN budgetStorage_delete(budgets, category, readOk, writeOk)
                  ELSE budgetStorage_set(budgets, category, amount, readOk, writeOk)
    /\ UNCHANGED <<expenses, emergencyFund, savingsGoals>>
    /\ Mutated(readOk, writeOk)

EmergencyInputs ==
  {[target |-> MaxAmount, current |-> 1], [target |-> 1, current |-> 0]}

\* SavingScreen.updateEmergencyFund
UpdateEmergencyFund ==
  \E input \in EmergencyInputs, readOk, writeOk \in BOOLEAN :
    /\ emergencyFund' =
         emergencyFundStorage_update(emergencyFund, input.target, input.current,
                                     readOk, writeOk)
    /\ UNCHANGED <<expenses, budgets, savingsGoals>>
    /\ Mutated(readOk, writeOk)

GoalInputs == {[name |-> "Trip", target |-> MaxAmount, current |-> 0]}

\* SavingScreen.addSavingsGoal
AddSavingsGoal ==
  \E input \in GoalInputs, readOk, writeOk \in BOOLEAN :
    /\ Len(savingsGoals) < MaxGoals
    /\ savingsGoals' = savingsGoalStorage_add(input, readOk, writeOk)
    /\ UNCHANGED <<expenses, budgets, emergencyFund>>
    /\ Mutated(readOk, writeOk)

\* SavingScreen.deleteSavingsGoal
DeleteSavingsGoal ==
  \E i \in 1..Len(savingsGoals), readOk, writeOk \in BOOLEAN :
    /\ savingsGoals' = savingsGoalStorage_delete(savingsGoals[i].id, readOk, writeOk)
    /\ UNCHANGED <<expenses, budgets, emergencyFund>>
    /\ Mutated(readOk, writeOk)

\* clearAllData, or the application installed afresh: an empty local store.
ClearLocal ==
  /\ expenses' = <<>>
  /\ budgets' = EmptyBudgets
  /\ emergencyFund' = DefaultEmergencyFund
  /\ savingsGoals' = <<>>
  /\ lastCall' = Call("clear", "none", "none")
  /\ base' = [expenses |-> <<>>, savingsGoals |-> <<>>]
  /\ UNCHANGED <<remote, now, backedUp, remoteWrites, mutations, uid, faults>>
  /\ UNCHANGED schedVars

Tick ==
  /\ now < MaxTime
  /\ now' = now + 1
  /\ lastCall' = Call("tick", "none", "none")
  /\ base' = Ledger
  /\ UNCHANGED <<remote, backedUp, remoteWrites, mutations, uid, faults>>
  /\ UNCHANGED localVars
  /\ UNCHANGED schedVars

\* Another client of the same account (or another version of the
\* application) writes the user's document.
ForeignWrite ==
  \E userId \in Users :
    \E doc \in ForeignDocs(userId) :
      /\ remoteWrites < MaxRemoteWrites
      /\ remote' = setDoc(userId, doc)
      /\ remoteWrites' = remoteWrites + 1
      /\ backedUp' = [u \in DOMAIN backedUp \ {userId} |-> backedUp[u]]
      /\ lastCall' = Call("foreign", userId, "none")
      /\ base' = Ledger
      /\ UNCHANGED <<now, mutations, uid, faults>>
      /\ UNCHANGED localVars
      /\ UNCHANGED schedVars

\* What a completed backupToCloud(userId) leaves behind.
Backed(userId, r, rd, digestOk, upsertOk) ==
  /\ remote' = r.remote
  /\ backedUp' = IF r.result = "true"
                 THEN [u \in DOMAIN backedUp \cup {userId} |->
                         IF u = userId
                         THEN [budgets |-> budgets,
                               emergencyFund |-> emergencyFund,
                               io |-> (rd # {})]
                         ELSE backedUp[u]]
                 ELSE backedUp
  /\ lastCall' = [Call("backupToCloud", userId, r.result) EXCEPT
                    !.io = (rd # {}), !.digestOk = digestOk,
                    !.netOk = upsertOk, !.preRemote = remote, !.rd = rd]
  /\ base' = Ledger

\* A storage that is unavailable fails every read: one fault.
ReadFaults(rd) == IF rd = LocalSites THEN 1 ELSE Cardinality(rd)

\* Faulty variant: a backup that moves the data to the cloud, emptying the
\* local store once the upload succeeded.
BackupToCloud_moving ==
  \E rd \in SUBSET LocalSites, digestOk \in BOOLEAN,
     deviceId \in DeviceIds, upsertOk \in BOOLEAN :
    LET r == backupToCloud(uid, rd, digestOk, deviceId, upsertOk)
        n == ReadFaults(rd) + Flag(digestOk) + Flag(upsertOk)
    IN /\ remoteWrites < MaxRemoteWrites
       /\ faults + n <= MaxFaults
       /\ faults' = faults + n
       /\ remoteWrites' = IF upsertOk THEN remoteWrites + 1 ELSE remoteWrites
       /\ Backed(uid, r, rd, digestOk, upsertOk)
       /\ expenses' = IF r.result = "true" THEN <<>> ELSE expenses
       /\ UNCHANGED <<budgets, emergencyFund, savingsGoals>>
       /\ UNCHANGED <<now, mutations, uid>>
       /\ UNCHANGED schedVars

BackupToCloud ==
  \E rd \in SUBSET LocalSites, digestOk \in BOOLEAN,
     deviceId \in DeviceIds, upsertOk \in BOOLEAN :
    LET r == backupToCloud(uid, rd, digestOk, deviceId, upsertOk)
        n == ReadFaults(rd) + Flag(digestOk) + Flag(upsertOk)
    IN /\ remoteWrites < MaxRemoteWrites
       /\ faults + n <= MaxFaults
       /\ faults' = faults + n
       /\ remoteWrites' = IF upsertOk THEN remoteWrites + 1 ELSE remoteWrites
       /\ Backed(uid, r, rd, digestOk, upsertOk)
       /\ UNCHANGED <<now, mutations, uid>>
       /\ UNCHANGED localVars
       /\ UNCHANGED schedVars

\* The storage calls restorePersonalData makes for the document of userId.
RestoreSites(userId) ==
  IF /\ userId \in DOMAIN remote
     /\ "data" \in DOMAIN remote[userId]
     /\ remote[userId].data.kind = "object"
  THEN LET data == remote[userId].data
       IN (IF "budgets" \in DOMAIN data THEN DOMAIN data.budgets ELSE {})
          \cup (IF "emergencyFund" \in DOMAIN data THEN {"emergencyFund"} ELSE {})
  ELSE {}

RestoreFromCloud ==
  \E fetchOk, digestOk \in BOOLEAN, keys \in KeyOrders :
    \E rd \in SUBSET RestoreSites(uid), wr \in SUBSET RestoreSites(uid) :
      \E order \in Orders(RestoreSites(uid) \ {"emergencyFund"}) :
        LET r == restoreFromCloud(uid, fetchOk, digestOk, keys, order, rd, wr)
            n == Cardinality(rd) + Cardinality(wr) + Flag(fetchOk) + Flag(digestOk)
            io == rd \cup wr # {}
        IN /\ faults + n <= MaxFaults
           /\ faults' = faults + n
           /\ expenses' = r.local.expenses
           /\ budgets' = r.local.budgets
           /\ emergencyFund' = r.local.emergencyFund
           /\ savingsGoals' = r.local.savingsGoals
           /\ lastCall' =
                [Call("restoreFromCloud", uid, r.result) EXCEPT
                   !.warned = r.warned, !.applied = r.applied, !.io = io,
                   !.digestOk = digestOk, !.netOk = fetchOk, !.pre = Local,
                   !.keys = keys, !.rd = rd,
                   !.after = IF /\ lastCall.op = "restoreFromCloud"
                                /\ lastCall.result = "true"
                             THEN IF lastCall.io THEN "faulty restore"
                                  ELSE "restore"
                             ELSE "other"]
           /\ base' = IF lastCall.op = "restoreFromCloud" THEN base ELSE Ledger
           /\ UNCHANGED <<remote, now, backedUp, remoteWrites, mutations, uid>>
           /\ UNCHANGED schedVars

HasBackup ==
  \E fetchOk \in BOOLEAN :
    /\ faults + Flag(fetchOk) <= MaxFaults
    /\ faults' = faults + Flag(fetchOk)
    /\ lastCall' = [Call("hasBackup", uid, hasBackup(uid, fetchOk)) EXCEPT
                      !.netOk = fetchOk]
    /\ base' = Ledger
    /\ UNCHANGED <<remote, now, backedUp, remoteWrites, mutations, uid>>
    /\ UNCHANGED localVars
    /\ UNCHANGED schedVars

GetBackupInfo ==
  \E fetchOk \in BOOLEAN :
    LET r == getBackupInfo(uid, fetchOk)
    IN /\ faults + Flag(fetchOk) <= MaxFaults
       /\ faults' = faults + Flag(fetchOk)
       /\ lastCall' = [Call("getBackupInfo", uid, r.result) EXCEPT
                         !.info = r.info, !.netOk = fetchOk,
                         !.pre = Local, !.preRemote = remote]
       /\ base' = Ledger
       /\ UNCHANGED <<remote, now, backedUp, remoteWrites, mutations, uid>>
       /\ UNCHANGED localVars
       /\ UNCHANGED schedVars

\* Faulty variant: clearBackup with its deleteDoc call in place.
clearBackup_deleting(userId) ==
  [result |-> "true",
   remote |-> [v \in DOMAIN remote \ {userId} |-> remote[v]]]

\* clearBackup: the deletion is commented out; the call only logs.
clearBackup(userId) == [result |-> "true", remote |-> remote]

ClearBackup ==
  LET r == clearBackup(uid)
  IN /\ remote' = r.remote
     /\ backedUp' = [u \in DOMAIN backedUp \cap DOMAIN r.remote |-> backedUp[u]]
     /\ lastCall' = [Call("clearBackup", uid, r.result) EXCEPT
                       !.pre = Local, !.preRemote = remote]
     /\ base' = Ledger
     /\ UNCHANGED <<now, remoteWrites, mutations, uid, faults>>
     /\ UNCHANGED localVars
     /\ UNCHANGED schedVars

Next ==
  \/ Step /\ AddExpense
  \/ Step /\ DeleteExpense
  \/ Step /\ SetBudgetForCategory
  \/ Step /\ UpdateEmergencyFund
  \/ Step /\ AddSavingsGoal
  \/ Step /\ DeleteSavingsGoal
  \/ Step /\ ClearLocal
  \/ Step /\ Tick
  \/ Step /\ ForeignWrite
  \/ Step /\ BackupToCloud
  \/ Step /\ RestoreFromCloud
  \/ Step /\ HasBackup
  \/ Step /\ GetBackupInfo
  \/ Step /\ ClearBackup

Spec == Init /\ [][Next]_vars

\* ------------------------------------------------- the auto-backup timer
\* Time is counted in minutes.  A timer that is due runs before anything
\* else happens and before the clock moves on.
TimerDue == \E t \in timers : t.deadline <= now

clearTimeout(pending, handle) == {t \in pending : t.id # handle}

\* Faulty variant: the pending timer is not cleared.
scheduleAutoBackup_noClear(userId, userEmail) ==
  [timers |-> timers \cup {[id |-> nextTimerId, deadline |-> now + QuietPeriod,
                            userId |-> userId, userEmail |-> userEmail]},
   backupTimeout |-> nextTimerId,
   nextTimerId |-> nextTimerId + 1]

\* scheduleAutoBackup: [timers, backupTimeout, nextTimerId]
scheduleAutoBackup(userId, userEmail) ==
  LET cleared == IF backupTimeout # 0
                 THEN clearTimeout(timers, backupTimeout)
                 ELSE timers
      handle == nextTimerId
  IN [timers |-> cleared \cup {[id |-> handle, deadline |-> now + QuietPeriod,
                                userId |-> userId, userEmail |-> userEmail]},
      backupTimeout |-> handle,
      nextTimerId |-> handle + 1]

Email(userId) == IF userId = "u1" THEN "u1@mail" ELSE "u2@mail"

ScheduleCalls == SelectSeq(events, LAMBDA e : e.kind = "schedule")

\* initializeUserServices' last step, or any other caller of the scheduler.
ScheduleAutoBackup ==
  LET r == scheduleAutoBackup(uid, Email(uid))
  IN /\ ~TimerDue
     /\ Len(ScheduleCalls) < MaxCalls
     /\ timers' = r.timers
     /\ backupTimeout' = r.backupTimeout
     /\ nextTimerId' = r.nextTimerId
     /\ events' = Append(events, [kind |-> "schedule", at |-> now, userId |-> uid])
     /\ lastCall' = Call("scheduleAutoBackup", uid, "none")
     /\ base' = Ledger
     /\ UNCHANGED <<remote, now, backedUp, remoteWrites, mutations, uid, faults,
                    steps, changedAt, changedBy>>
     /\ UNCHANGED localVars
     /\ UNCHANGED flowVars

\* Faulty variant: a scheduled backup that failed is armed again.
TimerFires_retry ==
  \E t \in timers, deviceId \in DeviceIds, upsertOk \in BOOLEAN :
    LET r == backupToCloud(t.userId, {}, TRUE, deviceId, upsertOk)
    IN /\ t.deadline <= now
       /\ timers' = (timers \ {t}) \cup
                      (IF r.result = "false"
                       THEN {[t EXCEPT !.deadline = now + QuietPeriod]}
                       ELSE {})
       /\ events' = Append(events, [kind |-> "backup", at |-> now,
                                    userId |-> t.userId])
       /\ Backed(t.userId, r, {}, TRUE, upsertOk)
       /\ UNCHANGED <<backupTimeout, nextTimerId, now, remoteWrites, mutations,
                      uid, faults, steps, changedAt, changedBy>>
       /\ UNCHANGED localVars
       /\ UNCHANGED flowVars

\* The timer's callback: await this.backupToCloud(userId, userEmail).
TimerFires ==
  \E t \in timers, deviceId \in DeviceIds, upsertOk \in BOOLEAN :
    LET r == backupToCloud(t.userId, {}, TRUE, deviceId, upsertOk)
    IN /\ t.deadline <= now
       /\ timers' = timers \ {t}
       /\ events' = Append(events, [kind |-> "backup", at |-> now,
                                    userId |-> t.userId])
       /\ Backed(t.userId, r, {}, TRUE, upsertOk)
       /\ UNCHANGED <<backupTimeout, nextTimerId, now, remoteWrites, mutations,
                      uid, faults, steps, changedAt, changedBy>>
       /\ UNCHANGED localVars
       /\ UNCHANGED flowVars

SchedTick ==
  /\ ~TimerDue
  /\ now < SchedMaxTime
  /\ now' = now + 1
  /\ lastCall' = Call("tick", "none", "none")
  /\ base' = Ledger
  /\ UNCHANGED <<remote, backedUp, remoteWrites, mutations, uid, faults, steps,
                 changedAt, changedBy>>
  /\ UNCHANGED localVars
  /\ UNCHANGED flowVars
  /\ UNCHANGED schedVars

SchedNext ==
  \/ ScheduleAutoBackup
  \/ TimerFires
  \/ SchedTick

SchedSpec == Init /\ [][SchedNext]_vars

\* ------------------------------------- the session: sign-in, screens, timer
\* FirebaseAuthProvider.logout: signOut and clearAllAuthData.  The local
\* collections and the pending timer are left as they are.
Logout ==
  /\ uid # "none"
  /\ \E s \in 1..Len(events) : events[s].kind = "schedule"
  /\ Cardinality({i \in 1..Len(events) : events[i].kind = "logout"}) < MaxLogouts
  /\ uid' = "none"
  /\ events' = Append(events, [kind |-> "logout", at |-> now, userId |-> uid])
  /\ lastCall' = Call("logout", uid, "none")
  /\ base' = Ledger
  /\ UNCHANGED <<timers, backupTimeout, nextTimerId>>
  /\ UNCHANGED <<remote, now, backedUp, remoteWrites, mutations, faults, steps,
                 changedAt, changedBy>>
  /\ UNCHANGED localVars
  /\ UNCHANGED flowVars

\* FirebaseAuthProvider.login: a user signs in.
Login ==
  \E userId \in Users :
    /\ uid = "none"
    /\ uid' = userId
    /\ lastCall' = Call("login", userId, "none")
    /\ base' = Ledger
    /\ UNCHANGED <<remote, now, backedUp, remoteWrites, mutations, faults, steps,
                   changedAt, changedBy>>
    /\ UNCHANGED localVars
    /\ UNCHANGED schedVars
    /\ UNCHANGED flowVars

\* initializeUserServices has run for the user signed in: it called
\* scheduleAutoBackup after the last logout, if any.
ServicesInitialized ==
  /\ uid # "none"
  /\ \E s \in 1..Len(events) :
       /\ events[s].kind = "schedule"
       /\ \A l \in 1..Len(events) : events[l].kind = "logout" => l < s

\* The effect of AppNavigator runs initializeUserServices once the user is
\* authenticated: when hasBackup answers true it restores, and its last
\* step is the only scheduleAutoBackup call of the application.
InitializeUserServices ==
  \E order \in Orders(RestoreSites(uid) \ {"emergencyFund"}) :
    LET r == IF hasBackup(uid, TRUE) = "true"
             THEN restoreFromCloud(uid, TRUE, TRUE, "insertion", order, {}, {})
             ELSE [result |-> "none", warned |-> FALSE, applied |-> FALSE,
                   local |-> Local]
        s == scheduleAutoBackup(uid, Email(uid))
    IN /\ uid # "none"
       /\ ~ServicesInitialized
       /\ ~TimerDue
       /\ Len(ScheduleCalls) < MaxCalls
       /\ expenses' = r.local.expenses
       /\ budgets' = r.local.budgets
       /\ emergencyFund' = r.local.emergencyFund
       /\ savingsGoals' = r.local.savingsGoals
       /\ timers' = s.timers
       /\ backupTimeout' = s.backupTimeout
       /\ nextTimerId' = s.nextTimerId
       /\ events' = Append(events,
                           [kind |-> "schedule", at |-> now, userId |-> uid])
       /\ lastCall' = [Call("initializeUserServices", uid, r.result) EXCEPT
                         !.warned = r.warned, !.applied = r.applied,
                         !.pre = Local]
       /\ base' = Ledger
       /\ UNCHANGED <<remote, now, backedUp, remoteWrites, mutations, uid,
                      faults, steps, changedAt, changedBy>>
       /\ UNCHANGED flowVars

\* What the session adds to a screen handler: a user is signed in, the
\* storage works, and the time of the change is recorded.  No handler calls
\* scheduleAutoBackup.
Edited ==
  /\ ServicesInitialized
  /\ ~TimerDue
  /\ mutations < MaxEdits
  /\ faults' = faults
  /\ changedAt' = now
  /\ changedBy' = changedBy \cup {uid}
  /\ UNCHANGED steps
  /\ UNCHANGED flowVars

\* The effect runs as soon as the user is authenticated: no time passes
\* between the sign-in and initializeUserServices.
SessionTick ==
  /\ uid = "none" \/ ServicesInitialized
  /\ SchedTick

SessionNext ==
  \/ InitializeUserServices
  \/ TimerFires
  \/ SessionTick
  \/ Logout
  \/ Login
  \/ Edited /\ AddExpense
  \/ Edited /\ SetBudgetForCategory
  \/ Edited /\ UpdateEmergencyFund
  \/ Edited /\ AddSavingsGoal

SessionSpec == Init /\ [][SessionNext]_vars

\* ---------------------------------------------------- calls in flight
\* backupToCloud and restoreFromCloud are asynchronous: a trigger starts the
\* call and goes on, the call completes later.  Nothing in the service or in
\* its callers records that a call is running, except ProfileScreen's
\* backupLoading flag, which disables its own two buttons.
Flight(op, userId, trigger) ==
  [id |-> flightsStarted + 1, op |-> op, userId |-> userId,
   trigger |-> trigger, phase |-> "running", timedOut |-> FALSE,
   wrote |-> FALSE, result |-> "none",
   concurrent |-> {g.id : g \in {h \in flights : h.op = op /\ h.phase = "running"}},
   snap |-> <<>>, rd |-> {}, doc |-> {},
   seen |-> [s \in LocalSites |->
               IF op = "backupToCloud" THEN {Local[s]} ELSE {}]]

Launch(f) ==
  /\ flightsStarted < MaxFlights
  /\ flights' = flights \cup {f}
  /\ flightsStarted' = flightsStarted + 1

Running(op) == {f \in flights : f.op = op /\ f.phase = "running"}

Settle(f, phase, wrote) ==
  flights' = (flights \ {f}) \cup
               {[f EXCEPT !.phase = phase, !.wrote = wrote,
                          !.result = lastCall'.result]}

\* handleManualBackup up to its await: 'Backup Now' is enabled only while
\* backupLoading is false.
HandleManualBackup ==
  /\ uid # "none"
  /\ ~backupLoading
  /\ Launch(Flight("backupToCloud", uid, "manual"))
  /\ backupLoading' = TRUE
  /\ UNCHANGED <<remote, now, lastCall, backedUp, base, remoteWrites, mutations,
                 uid, faults, steps, changedAt, changedBy>>
  /\ UNCHANGED localVars
  /\ UNCHANGED schedVars

\* handleRestoreBackup's 'Restore' button up to its await.
HandleRestoreBackup ==
  /\ uid # "none"
  /\ ~backupLoading
  /\ Launch(Flight("restoreFromCloud", uid, "manual"))
  /\ backupLoading' = TRUE
  /\ UNCHANGED <<remote, now, lastCall, backedUp, base, remoteWrites, mutations,
                 uid, faults, steps, changedAt, changedBy>>
  /\ UNCHANGED localVars
  /\ UNCHANGED schedVars

\* The 30 s timer of handleRestoreBackup wins the race: the handler reports
\* a timeout and resets backupLoading; the restore it started keeps running.
RestoreTimeout ==
  \E f \in Running("restoreFromCloud") :
    /\ f.trigger = "manual"
    /\ ~f.timedOut
    /\ flights' = (flights \ {f}) \cup {[f EXCEPT !.timedOut = TRUE]}
    /\ backupLoading' = FALSE
    /\ UNCHANGED <<remote, now, lastCall, backedUp, base, remoteWrites,
                   mutations, uid, faults, steps, changedAt, changedBy, flightsStarted>>
    /\ UNCHANGED localVars
    /\ UNCHANGED schedVars

\* The callback of scheduleAutoBackup's timer up to its await.
TimerExpires ==
  \E t \in timers :
    /\ Launch(Flight("backupToCloud", t.userId, "timer"))
    /\ timers' = timers \ {t}
    /\ UNCHANGED <<remote, now, lastCall, backedUp, base, remoteWrites,
                   mutations, uid, faults, steps, changedAt, changedBy, backupLoading,
                   backupTimeout, nextTimerId, events>>
    /\ UNCHANGED localVars

LoginFlights == {f \in flights : f.trigger = "login"}

\* initializeUserServices when hasBackup answers true, up to the await of
\* its restoreFromCloud.
InitializeStarts ==
  /\ uid # "none"
  /\ ~ServicesInitialized
  /\ LoginFlights = {}
  /\ hasBackup(uid, TRUE) = "true"
  /\ Launch(Flight("restoreFromCloud", uid, "login"))
  /\ UNCHANGED <<remote, now, lastCall, backedUp, base, remoteWrites, mutations,
                 uid, faults, steps, changedAt, changedBy, backupLoading>>
  /\ UNCHANGED localVars
  /\ UNCHANGED schedVars

\* Faulty variant: the timer is armed without awaiting the restore.
InitializeEnds_eager ==
  /\ uid # "none"
  /\ ~ServicesInitialized
  /\ ScheduleAutoBackup

\* initializeUserServices' last step: after the restore it awaited, or at
\* once when hasBackup answers false.
InitializeEnds ==
  /\ uid # "none"
  /\ ~ServicesInitialized
  /\ IF LoginFlights = {} THEN hasBackup(uid, TRUE) = "false"
     ELSE \A f \in LoginFlights : f.phase = "done"
  /\ ScheduleAutoBackup

\* A backupToCloud in flight completes.
BackupCompletes ==
  \E f \in Running("backupToCloud") :
    /\ f.userId = uid
    /\ BackupToCloud
    /\ Settle(f, "done", FALSE)
    /\ backupLoading' = IF f.trigger = "manual" THEN FALSE ELSE backupLoading
    /\ UNCHANGED <<steps, changedAt, changedBy, flightsStarted>>

\* A restoreFromCloud in flight completes; handleRestoreBackup's finally
\* block runs unless the handler has already timed out.
RestoreCompletes ==
  \E f \in Running("restoreFromCloud") :
    /\ f.userId = uid
    /\ RestoreFromCloud
    /\ Settle(f, "done",
              budgets' # budgets \/ emergencyFund' # emergencyFund)
    /\ backupLoading' = IF f.trigger = "manual" /\ ~f.timedOut THEN FALSE
                        ELSE backupLoading
    /\ UNCHANGED <<steps, changedAt, changedBy, flightsStarted>>

\* Another device of the same account writes the user's document.
OtherDeviceWrites ==
  /\ ForeignWrite
  /\ UNCHANGED <<steps, changedAt, changedBy>>
  /\ UNCHANGED flowVars

FlowNext ==
  \/ HandleManualBackup
  \/ HandleRestoreBackup
  \/ RestoreTimeout
  \/ TimerExpires
  \/ InitializeStarts
  \/ InitializeEnds
  \/ BackupCompletes
  \/ RestoreCompletes
  \/ OtherDeviceWrites

FlowSpec == Init /\ [][FlowNext]_vars

\* ------------------------------------------- a backup, read by read
\* collectPersonalData issues its four reads together (Promise.all); each is
\* one AsyncStorage.getItem and they complete in any order, with screen
\* handlers free to run in between.  The snapshot is assembled when the last
\* read has completed, hashed, wrapped and handed to setDoc.
SiteDefault(site) ==
  CASE site = "expenses" -> <<>>
    [] site = "budgets" -> EmptyBudgets
    [] site = "emergencyFund" -> DefaultEmergencyFund
    [] site = "savingsGoals" -> <<>>

\* Faulty variant: the reads are served from a cache that was never filled.
SiteRead_cached(site, readOk) == SiteDefault(site)

\* One of the four reads of collectPersonalData.
SiteRead(site, readOk) ==
  CASE site = "expenses" -> expenseStorage_getAll(readOk)
    [] site = "budgets" -> budgetStorage_getAll(budgets, readOk)
    [] site = "emergencyFund" -> emergencyFundStorage_get(emergencyFund, readOk)
    [] site = "savingsGoals" -> savingsGoalStorage_getAll(readOk)

Collecting(f) ==
  f.op = "backupToCloud" /\ f.phase = "running" /\ DOMAIN f.snap # LocalSites

\* One read of a backup in flight completes.
BackupReads ==
  \E f \in Running("backupToCloud") :
    \E site \in LocalSites \ DOMAIN f.snap, readOk \in BOOLEAN :
      /\ faults + Flag(readOk) <= MaxFaults
      /\ faults' = faults + Flag(readOk)
      /\ flights' = (flights \ {f}) \cup
           {[f EXCEPT !.snap = [t \in DOMAIN f.snap \cup {site} |->
                                  IF t = site THEN SiteRead(site, readOk)
                                  ELSE f.snap[t]],
                      !.rd = IF readOk THEN @ ELSE @ \cup {site}]}
      /\ UNCHANGED <<remote, now, lastCall, backedUp, base, remoteWrites,
                     mutations, uid, steps, changedAt, changedBy, flightsStarted,
                     backupLoading>>
      /\ UNCHANGED localVars
      /\ UNCHANGED schedVars

\* Faulty variant: an upsert that writes the payload and its hash only and
\* keeps the other fields of a document that is already there.
Upsert_payloadOnly(userId, backup) ==
  IF userId \in DOMAIN remote
  THEN [remote EXCEPT ![userId] =
          [@ EXCEPT !.data = backup.data, !.dataHash = backup.dataHash]]
  ELSE setDoc(userId, backup)

\* await setDoc(doc(db, 'user_backups', userId), backup)
Upsert(userId, backup) == setDoc(userId, backup)

\* The snapshot of a backup in flight is complete: it is hashed, wrapped
\* and upserted, and the call returns.
BackupUpserts ==
  \E f \in Running("backupToCloud") :
    \E digestOk \in BOOLEAN, deviceId \in DeviceIds, upsertOk \in BOOLEAN :
      LET personalData ==
            PersonalBackupData(f.snap["expenses"], f.snap["budgets"],
                               f.snap["emergencyFund"], f.snap["savingsGoals"])
          dataString == JSON_stringify(personalData, "insertion")
          dataHash == createDataHash(dataString, digestOk)
          backup == SimpleBackup(f.userId, personalData, dataHash, deviceId)
          r == IF upsertOk
               THEN [result |-> "true", remote |-> Upsert(f.userId, backup)]
               ELSE [result |-> "false", remote |-> remote]
          n == Flag(digestOk) + Flag(upsertOk)
      IN /\ DOMAIN f.snap = LocalSites
         /\ remoteWrites < MaxRemoteWrites
         /\ faults + n <= MaxFaults
         /\ faults' = faults + n
         /\ remoteWrites' = IF upsertOk THEN remoteWrites + 1 ELSE remoteWrites
         /\ Backed(f.userId, r, f.rd, digestOk, upsertOk)
         /\ flights' = (flights \ {f}) \cup
              {[f EXCEPT !.phase = "done", !.result = r.result,
                         !.doc = IF upsertOk THEN {backup} ELSE {}]}
         /\ backupLoading' = IF f.trigger = "manual" THEN FALSE
                             ELSE backupLoading
         /\ UNCHANGED <<now, mutations, uid, steps, changedAt, changedBy, flightsStarted>>
         /\ UNCHANGED localVars
         /\ UNCHANGED schedVars

NewLocal == [expenses |-> expenses', budgets |-> budgets',
             emergencyFund |-> emergencyFund', savingsGoals |-> savingsGoals']

\* A screen handler runs while backups may be collecting; every collecting
\* backup could read what the handler stored.
WhileCollecting ==
  /\ mutations < MaxEdits
  /\ faults' = faults
  /\ flights' = {IF Collecting(f)
                 THEN [f EXCEPT !.seen = [s \in LocalSites |->
                                            @[s] \cup {NewLocal[s]}]]
                 ELSE f : f \in flights}
  /\ UNCHANGED <<steps, changedAt, changedBy, flightsStarted, backupLoading>>

CollectNext ==
  \/ InitializeEnds
  \/ HandleManualBackup
  \/ TimerExpires
  \/ BackupReads
  \/ BackupUpserts
  \/ AddExpense /\ WhileCollecting
  \/ SetBudgetForCategory /\ WhileCollecting
  \/ UpdateEmergencyFund /\ WhileCollecting
  \/ AddSavingsGoal /\ WhileCollecting

CollectSpec == Init /\ [][CollectNext]_vars

\* ------------------------------------------- the encoded variant of the service
\* Texts are sequences of character codes.  btoa and atob are computed as the
\* platform computes them: three octets to four characters of the base64
\* alphabet, "=" padding, and the forgiving decoder of atob.
Text(codes) == [ok |-> TRUE, s |-> codes]

Thrown == [ok |-> FALSE, s |-> <<>>]

PadChar == 61

B64Char(i) ==
  IF i < 26 THEN 65 + i
  ELSE IF i < 52 THEN 97 + (i - 26)
  ELSE IF i < 62 THEN 48 + (i - 52)
  ELSE IF i = 62 THEN 43 ELSE 47

B64Index(c) ==
  IF c >= 65 /\ c <= 90 THEN c - 65
  ELSE IF c >= 97 /\ c <= 122 THEN c - 97 + 26
  ELSE IF c >= 48 /\ c <= 57 THEN c - 48 + 52
  ELSE IF c = 43 THEN 62
  ELSE IF c = 47 THEN 63 ELSE -1

RECURSIVE B64Encode(_)
B64Encode(s) ==
  IF s = <<>> THEN <<>>
  ELSE IF Len(s) = 1
    THEN <<B64Char(s[1] \div 4), B64Char((s[1] % 4) * 16), PadChar, PadChar>>
  ELSE IF Len(s) = 2
    THEN <<B64Char(s[1] \div 4), B64Char((s[1] % 4) * 16 + s[2] \div 16),
           B64Char((s[2] % 16) * 4), PadChar>>
  ELSE <<B64Char(s[1] \div 4), B64Char((s[1] % 4) * 16 + s[2] \div 16),
         B64Char((s[2] % 16) * 4 + s[3] \div 64), B64Char(s[3] % 64)>>
       \o B64Encode(SubSeq(s, 4, Len(s)))

\* btoa throws on a character outside Latin-1.
btoa(s) ==
  IF \E i \in 1..Len(s) : s[i] > 255 THEN Thrown ELSE Text(B64Encode(s))

RECURSIVE B64Decode(_)
B64Decode(t) ==
  IF Len(t) < 2 THEN <<>>
  ELSE LET a == B64Index(t[1])
           b == B64Index(t[2])
       IN IF Len(t) = 2 THEN <<a * 4 + b \div 16>>
          ELSE LET c == B64Index(t[3])
               IN IF Len(t) = 3
                  THEN <<a * 4 + b \div 16, (b % 16) * 16 + c \div 4>>
                  ELSE <<a * 4 + b \div 16, (b % 16) * 16 + c \div 4,
                         (c % 4) * 64 + B64Index(t[4])>>
                       \o B64Decode(SubSeq(t, 5, Len(t)))

\* atob: one or two trailing "=" of a text whose length is a multiple of four
\* are dropped; what is left must hold alphabet characters only and must not
\* have a length of 1 modulo 4.
atob(t) ==
  LET n == Len(t)
      cut == IF n % 4 = 0 /\ n > 0 /\ t[n] = PadChar
             THEN IF t[n - 1] = PadChar THEN 2 ELSE 1
             ELSE 0
      body == SubSeq(t, 1, n - cut)
  IN IF Len(body) % 4 = 1 \/ \E i \in 1..Len(body) : B64Index(body[i]) = -1
     THEN Thrown
     ELSE Text(B64Decode(body))

\* String.prototype.replace with a string pattern: the first occurrence only.
replace(s, pattern, by) ==
  LET m == Len(pattern)
      at == {i \in 1..(Len(s) - m + 1) : SubSeq(s, i, i + m - 1) = pattern}
  IN IF at = {} THEN s
     ELSE LET i == CHOOSE j \in at : \A k \in at : j <= k
          IN SubSeq(s, 1, i - 1) \o by \o SubSeq(s, i + m, Len(s))

HexChar(d) == IF d < 10 THEN 48 + d ELSE 97 + (d - 10)

keyMaterial(userEmail, timestamp) == <<userEmail, "_aivest_", timestamp>>

\* The first eight characters of the hexadecimal SHA-256 digest of a key
\* material.  The digest itself is not computed: a fixed one-to-one function
\* of the material stands for it, so that different materials give different
\* keys and the same material gives the same key.
digestHex8(material) ==
  LET n == 2 * material[3] + (IF material[1] = "u1@mail" THEN 0 ELSE 1)
      h == (n * 40503 + 12345) % 65536
      d == <<h \div 4096, (h \div 256) % 16, (h \div 16) % 16, h % 16>>
  IN [i \in 1..8 |-> HexChar(d[((i - 1) % 4) + 1])]

\* digest.substring(0, 32), of which only slice(0, 8) is ever used.
deriveEncryptionKey(userEmail, timestamp) ==
  digestHex8(keyMaterial(userEmail, timestamp))

encryptData(data, encryptionKey) ==
  LET encodedData == btoa(data)
  IN IF ~encodedData.ok THEN Thrown
     ELSE btoa(encodedData.s \o encryptionKey)

decryptData(encryptedData, encryptionKey) ==
  LET decoded == atob(encryptedData)
  IN IF ~decoded.ok THEN Thrown
     ELSE atob(replace(decoded.s, encryptionKey, <<>>))

\* JSON.stringify(personalData): the texts the encoded backup is run on.
\* {} , {"a":1} , {"ab":12} and a text with a rupee sign in it.
DataStrings ==
  { <<123, 125>>,
    <<123, 34, 97, 34, 58, 49, 125>>,
    <<123, 34, 97, 98, 34, 58, 49, 50, 125>>,
    <<123, 34, 97, 34, 58, 34, 8377, 34, 125>> }

EncryptedBackup(userId, encryptedData, dataHash, lastUpdated, deviceId) ==
  [userId |-> userId, encryptedData |-> encryptedData, dataHash |-> dataHash,
   version |-> DATA_VERSION, lastUpdated |-> lastUpdated,
   deviceInfo |-> [platform |-> "React Native", version |-> DATA_VERSION,
                   deviceId |-> deviceId]]

\* backupToCloud of the encoded variant.  The key is derived from Date.now()
\* (keyTime); lastUpdated is a second reading of the clock (stampTime), taken
\* after the key derivation, the encoding and the digest have been awaited.
backupToCloud_encoded(userId, userEmail, dataString, keyTime, stampTime, deviceId) ==
  LET encryptionKey == deriveEncryptionKey(userEmail, keyTime)
      encryptedData == encryptData(dataString, encryptionKey)
      dataHash == digestStringAsync(dataString)
      backup == EncryptedBackup(userId, encryptedData.s, dataHash, stampTime,
                                deviceId)
  IN IF ~encryptedData.ok
     THEN [result |-> "false", remote |-> remote, key |-> encryptionKey]
     ELSE [result |-> "true", remote |-> setDoc(userId, backup),
           key |-> encryptionKey]

\* restoreFromCloud of the encoded variant, up to the point where the decoded
\* text is handed to JSON.parse and restorePersonalData.
restoreFromCloud_encoded(userId, userEmail) ==
  IF userId \notin DOMAIN remote
  THEN [result |-> "false", key |-> <<>>, decrypted |-> Thrown, checked |-> FALSE]
  ELSE LET backup == remote[userId]
           timestamp == backup.lastUpdated
           encryptionKey == deriveEncryptionKey(userEmail, timestamp)
           decryptedDataString == decryptData(backup.encryptedData, encryptionKey)
           computedHash == digestStringAsync(decryptedDataString.s)
       IN IF ~decryptedDataString.ok
          THEN [result |-> "false", key |-> encryptionKey,
                decrypted |-> Thrown, checked |-> FALSE]
          ELSE IF computedHash # backup.dataHash
          THEN [result |-> "false", key |-> encryptionKey,
                decrypted |-> decryptedDataString, checked |-> FALSE]
          ELSE [result |-> "true", key |-> encryptionKey,
                decrypted |-> decryptedDataString, checked |-> TRUE]

EncMaxTime == 2

MaxBackups == 2

EncUnchanged ==
  /\ UNCHANGED <<base, mutations, uid, faults, steps, changedAt, changedBy>>
  /\ UNCHANGED localVars
  /\ UNCHANGED schedVars
  /\ UNCHANGED flowVars

\* backupToCloud(userId, Email(userId)) runs; the clock may move on between
\* its two readings.
EncodedBackup ==
  \E userId \in Users, dataString \in DataStrings, deviceId \in DeviceIds,
     stampTime \in {now, now + 1} :
    LET r == backupToCloud_encoded(userId, Email(userId), dataString, now,
                                   stampTime, deviceId)
    IN /\ stampTime <= EncMaxTime
       /\ remoteWrites < MaxBackups
       /\ remote' = r.remote
       /\ now' = stampTime
       /\ remoteWrites' = remoteWrites + 1
       /\ backedUp' = IF r.result = "true"
                      THEN [u \in DOMAIN backedUp \cup {userId} |->
                              IF u = userId
                              THEN [dataString |-> dataString, key |-> r.key,
                                    userEmail |-> Email(userId)]
                              ELSE backedUp[u]]
                      ELSE backedUp
       /\ lastCall' = [Call("backupToCloud", userId, r.result)
                         EXCEPT !.info = [dataString |-> dataString,
                                          key |-> r.key]]
       /\ EncUnchanged

\* restoreFromCloud(userId, Email(userId)) runs.
EncodedRestore ==
  \E userId \in Users :
    LET r == restoreFromCloud_encoded(userId, Email(userId))
    IN /\ lastCall' = [Call("restoreFromCloud", userId, r.result)
                         EXCEPT !.info = [key |-> r.key,
                                          decrypted |-> r.decrypted,
                                          checked |-> r.checked]]
       /\ UNCHANGED <<remote, now, remoteWrites, backedUp>>
       /\ EncUnchanged

\* Time passes between two calls.
EncodedTick ==
  /\ now < EncMaxTime
  /\ now' = now + 1
  /\ lastCall' = Call("tick", "none", "none")
  /\ UNCHANGED <<remote, remoteWrites, backedUp>>
  /\ EncUnchanged

EncodedNext ==
  \/ EncodedBackup
  \/ EncodedRestore
  \/ EncodedTick

EncodedSpec == Init /\ [][EncodedNext]_vars

\* ------------------------------------------------------------- properties
EngineOps == {"backupToCloud", "restoreFromCloud", "hasBackup", "getBackupInfo"}

EmptyLocal ==
  [expenses |-> <<>>, budgets |-> EmptyBudgets,
   emergencyFund |-> DefaultEmergencyFund, savingsGoals |-> <<>>]

\* The category limits and the savings target of a local state, without
\* their time stamps.
Values(l) ==
  [budgets |-> [c \in DOMAIN l.budgets |-> l.budgets[c].amount],
   target |-> l.emergencyFund.target,
   current |-> l.emergencyFund.current]

\* The last call was a restoreFromCloud(uid) that returned true.
RestoredOk ==
  lastCall.op = "restoreFromCloud" /\ lastCall.result = "true"

\* The document of uid holds a payload that is an object.
UsablePayload ==
  /\ uid \in DOMAIN remote
  /\ "data" \in DOMAIN remote[uid]
  /\ remote[uid].data.kind = "object"

\* A successful restore into an empty local store of the document that the
\* last successful backupToCloud(uid) wrote.
RoundTripCase ==
  /\ RestoredOk
  /\ lastCall.pre = EmptyLocal
  /\ uid \in DOMAIN backedUp

\* Every limit of the backed-up state is there with its amount, and the
\* savings target has its target and current amounts.
RoundTripHolds ==
  LET S == backedUp[uid]
  IN /\ \A c \in DOMAIN S.budgets :
          c \in DOMAIN budgets /\ budgets[c].amount = S.budgets[c].amount
     /\ emergencyFund.target = S.emergencyFund.target
     /\ emergencyFund.current = S.emergencyFund.current

TwoRestores ==
  RestoredOk /\ lastCall.after \in {"restore", "faulty restore"}

\* The values are those the first restore left, and the ledger entries and
\* the goals are those from before the first restore.
SameAsAfterFirst ==
  /\ Values(Local) = Values(lastCall.pre)
  /\ expenses = base.expenses
  /\ savingsGoals = base.savingsGoals

C3_RestoreKeepsLedger ==
  lastCall.op = "restoreFromCloud"
    => /\ expenses = lastCall.pre.expenses
       /\ savingsGoals = lastCall.pre.savingsGoals

C3_Witness ==
  /\ RestoredOk
  /\ UsablePayload
  /\ remote[uid].data.expenses # <<>>
  /\ remote[uid].data.savingsGoals # <<>>
  /\ expenses = <<>>

\* C4: for a user without a document in the remote store, hasBackup returns
\* false, and restoreFromCloud returns false and changes no local collection.
C4_NoDocument ==
  uid \notin DOMAIN remote
    => /\ lastCall.op = "hasBackup" => lastCall.result = "false"
       /\ lastCall.op = "restoreFromCloud"
            => lastCall.result = "false" /\ Local = lastCall.pre

C4_Witness ==
  /\ uid \notin DOMAIN remote
  /\ lastCall.op = "restoreFromCloud"
  /\ lastCall.netOk
  /\ lastCall.result = "false"
  /\ budgets # EmptyBudgets

\* The digest computed over the fetched payload is not the stored dataHash.
DigestMismatch ==
  /\ lastCall.op = "restoreFromCloud"
  /\ lastCall.netOk
  /\ UsablePayload
  /\ \/ "dataHash" \notin DOMAIN remote[uid]
     \/ createDataHash(JSON_stringify(remote[uid].data, lastCall.keys),
                       lastCall.digestOk)
          # remote[uid].dataHash

\* The limits and the savings target of the payload are in the local store.
PayloadApplied ==
  LET data == remote[uid].data
  IN /\ "budgets" \in DOMAIN data =>
          \A c \in DOMAIN data.budgets :
            typeof(data.budgets[c].amount) = "number"
              => /\ c \in DOMAIN budgets
                 /\ budgets[c].amount = data.budgets[c].amount.n
     /\ ( /\ "emergencyFund" \in DOMAIN data
          /\ typeof(data.emergencyFund.target) = "number"
          /\ typeof(data.emergencyFund.current) = "number" )
          => /\ emergencyFund.target = data.emergencyFund.target.n
             /\ emergencyFund.current = data.emergencyFund.current.n

\* C5: when the recomputed digest differs from the stored dataHash,
\* restoreFromCloud warns, still restores the category limits and the
\* savings target, and returns true.
C5_MismatchStillRestores ==
  DigestMismatch
    => /\ lastCall.warned
       /\ lastCall.applied
       /\ lastCall.result = "true"
       /\ ~lastCall.io => PayloadApplied

C5_Witness ==
  /\ DigestMismatch
  /\ lastCall.digestOk
  /\ ~lastCall.io
  /\ lastCall.pre.budgets = EmptyBudgets
  /\ budgets # EmptyBudgets
  /\ emergencyFund.target > 0
  /\ lastCall.result = "true"

\* The document of uid has no data field, or one that is no object.
NoUsablePayload ==
  /\ uid \in DOMAIN remote
  /\ \/ "data" \notin DOMAIN remote[uid]
     \/ remote[uid].data.kind # "object"

\* C6: when the fetched document has no usable payload, restoreFromCloud
\* returns false and writes nothing to the local store.
C6_NoPayload ==
  (lastCall.op = "restoreFromCloud" /\ NoUsablePayload)
    => lastCall.result = "false" /\ Local = lastCall.pre

C6_Witness ==
  /\ lastCall.op = "restoreFromCloud"
  /\ lastCall.netOk
  /\ NoUsablePayload
  /\ "data" \notin DOMAIN remote[uid]
  /\ lastCall.result = "false"

\* C7: whatever fails, backupToCloud, restoreFromCloud and hasBackup complete
\* with a boolean and getBackupInfo with null or the info; no exception
\* reaches the caller.
C7_NeverThrows ==
  /\ lastCall.op \in {"backupToCloud", "restoreFromCloud", "hasBackup"}
       => lastCall.result \in {"true", "false"}
  /\ lastCall.op = "getBackupInfo" => lastCall.result \in {"null", "info"}

C7_Witness ==
  /\ lastCall.op \in EngineOps
  /\ ~lastCall.netOk
  /\ lastCall.result \in {"false", "null"}

\* The last call was a backupToCloud(uid) that returned true.
BackedUpOk ==
  lastCall.op = "backupToCloud" /\ lastCall.result = "true"

\* C8: after a successful backupToCloud(u) the document of u is exactly the
\* envelope of that call, with the snapshot just collected as its payload;
\* nothing of the previous document survives and the documents of the other
\* users are unchanged.
C8_FullReplace ==
  BackedUpOk
    => /\ uid \in DOMAIN remote
       /\ DOMAIN remote[uid] = EnvelopeFields
       /\ remote[uid].userId = uid
       /\ \E rd \in SUBSET LocalSites :
            remote[uid].data = collectPersonalData(rd)
       /\ ~lastCall.io => remote[uid].data = collectPersonalData({})
       /\ remote[uid].dataHash =
            createDataHash(JSON_stringify(remote[uid].data, "insertion"),
                           lastCall.digestOk)
       /\ remote[uid].version = DATA_VERSION
       /\ remote[uid].lastUpdated = now
       /\ remote[uid].deviceInfo.deviceId \in DeviceIds
       /\ DOMAIN remote \ {uid} = DOMAIN lastCall.preRemote \ {uid}
       /\ \A v \in DOMAIN remote \ {uid} : remote[v] = lastCall.preRemote[v]

C8_Witness ==
  /\ BackedUpOk
  /\ uid \in DOMAIN lastCall.preRemote
  /\ "encryptedData" \in DOMAIN lastCall.preRemote[uid]
  /\ budgets # EmptyBudgets

\* C9: when the upsert fails, backupToCloud returns false and the remote
\* store, the previous document of u included, is unchanged.
C9_FailedUpsert ==
  (lastCall.op = "backupToCloud" /\ ~lastCall.netOk)
    => lastCall.result = "false" /\ remote = lastCall.preRemote

C9_Witness ==
  /\ lastCall.op = "backupToCloud"
  /\ ~lastCall.netOk
  /\ uid \in DOMAIN remote
  /\ lastCall.result = "false"

\* ---- the debounce, over the recorded calls and backupToCloud invocations
ScheduleIdx == {i \in 1..Len(events) : events[i].kind = "schedule"}

BackupIdx == {i \in 1..Len(events) : events[i].kind = "backup"}

Highest(S) == CHOOSE i \in S : \A j \in S : j <= i

Lowest(S) == CHOOSE i \in S : \A j \in S : i <= j

\* A call starts a burst when it is the first call, or comes a quiet period
\* or more after the call before it.
StartsBurst(i) ==
  LET before == {j \in ScheduleIdx : j < i}
  IN \/ before = {}
     \/ events[i].at - events[Highest(before)].at >= QuietPeriod

BurstStarts == {i \in ScheduleIdx : StartsBurst(i)}

\* The position at which the burst that starts at s is over.
NextStart(s) ==
  LET later == {t \in BurstStarts : t > s}
  IN IF later = {} THEN Len(events) + 1 ELSE Lowest(later)

CallsOf(s) == {i \in ScheduleIdx : s <= i /\ i < NextStart(s)}

BackupsOf(s) == {i \in BackupIdx : s < i /\ i < NextStart(s)}

DueOf(s) == events[Highest(CallsOf(s))].at + QuietPeriod

\* The quiet period after the last call of the burst has run out and the
\* timer, if it was due, has run.
BurstOver(s) ==
  \/ NextStart(s) <= Len(events)
  \/ now >= DueOf(s) /\ ~TimerDue

\* C10: the calls of a burst, each less than the quiet period after the one
\* before, cause exactly one backupToCloud invocation, and it happens one
\* quiet period after the last call of the burst.
C10_Debounce ==
  \A s \in BurstStarts :
    /\ Cardinality(BackupsOf(s)) <= 1
    /\ \A b \in BackupsOf(s) :
         b > Highest(CallsOf(s)) /\ events[b].at = DueOf(s)
    /\ BurstOver(s) => Cardinality(BackupsOf(s)) = 1

C10_Witness ==
  \E s \in BurstStarts :
    /\ Cardinality(CallsOf(s)) = MaxCalls
    /\ events[Highest(CallsOf(s))].at > events[s].at
    /\ Cardinality(BackupsOf(s)) = 1
    /\ \A b \in BackupsOf(s) : events[b].at = DueOf(s)

\* The last recorded event is a backupToCloud invocation by the timer.
JustFired == events # <<>> /\ events[Len(events)].kind = "backup"

\* C11: every expiry of a deadline causes exactly one backupToCloud
\* invocation, after which no deadline is pending whether the backup
\* returned true or false; a failed scheduled backup is not run again
\* without a new scheduleAutoBackup call.
C11_ExpiryThenIdle ==
  /\ \A b \in BackupIdx :
       \E s \in ScheduleIdx :
         s < b /\ events[s].at + QuietPeriod = events[b].at
  /\ \A b1, b2 \in BackupIdx :
       b1 < b2 => \E s \in ScheduleIdx : b1 < s /\ s < b2
  /\ JustFired => timers = {}

C11_Witness ==
  /\ JustFired
  /\ uid \notin DOMAIN remote
  /\ now >= events[Len(events)].at + QuietPeriod
  /\ timers = {}

LogoutIdx == {i \in 1..Len(events) : events[i].kind = "logout"}

\* C12: after a user has logged out, no scheduled backup for that user runs
\* until scheduleAutoBackup is called for that user again.
C12_NoBackupAfterLogout ==
  \A l \in LogoutIdx, b \in BackupIdx :
    (l < b /\ events[b].userId = events[l].userId)
      => \E s \in ScheduleIdx :
           l < s /\ s < b /\ events[s].userId = events[l].userId

\* C13: every screen action notifies the scheduler, so once the quiet
\* period has passed since the last screen action and no deadline is pending
\* any more, a backupToCloud invocation has followed that action.
C13_ChangeIsBackedUp ==
  ( /\ changedAt >= 0
    /\ now >= changedAt + QuietPeriod
    /\ timers = {} )
    => \E b \in BackupIdx : events[b].at > changedAt

\* C16: getBackupInfo returns null when there is no document or the fetch
\* fails; otherwise the stored lastUpdated, version and deviceInfo with the
\* numbers of ledger entries, goals and category limits of the stored
\* payload; it changes neither the remote nor the local state.
C16_BackupInfo ==
  lastCall.op = "getBackupInfo"
    => /\ (uid \notin DOMAIN remote \/ ~lastCall.netOk)
            => lastCall.result = "null"
       /\ (uid \in DOMAIN remote /\ lastCall.netOk)
            => /\ lastCall.result = "info"
               /\ lastCall.info.lastUpdated = remote[uid].lastUpdated
               /\ lastCall.info.version = remote[uid].version
               /\ lastCall.info.deviceInfo = remote[uid].deviceInfo
               /\ UsablePayload
                    => /\ lastCall.info.dataSize.expenses
                            = LengthOrZero(remote[uid].data, "expenses")
                       /\ lastCall.info.dataSize.savingsGoals
                            = LengthOrZero(remote[uid].data, "savingsGoals")
                       /\ "budgets" \in DOMAIN remote[uid].data
                            => lastCall.info.dataSize.budgetCategories
                                 = Cardinality(DOMAIN remote[uid].data.budgets)
               /\ ~UsablePayload
                    => lastCall.info.dataSize =
                         [expenses |-> 0, savingsGoals |-> 0,
                          budgetCategories |-> 0]
       /\ Local = lastCall.pre
       /\ remote = lastCall.preRemote

C16_Witness ==
  /\ lastCall.op = "getBackupInfo"
  /\ lastCall.result = "info"
  /\ uid \in DOMAIN backedUp
  /\ Len(remote[uid].data.expenses) = 1
  /\ lastCall.info.dataSize.expenses = 1

\* The empty default a failed read of a collection yields in the snapshot.
DefaultOf(site) == EmptySnapshot[site]

C19_TotalTransactions ==
  \A u \in DOMAIN backedUp :
    remote[u].data.metadata.totalTransactions = Len(remote[u].data.expenses)

C19_Witness ==
  /\ uid \in DOMAIN backedUp
  /\ remote[uid].data.metadata.totalTransactions = 1
  /\ Len(remote[uid].data.expenses) = 1

\* C20: when the digest primitive throws during backupToCloud, the hash is
\* the time-stamped fallback string, and the backup still uploads the
\* envelope and returns true.
C20_DigestFallback ==
  (lastCall.op = "backupToCloud" /\ ~lastCall.digestOk /\ lastCall.netOk)
    => /\ lastCall.result = "true"
       /\ remote[uid].dataHash = [kind |-> "fallback_hash", at |-> now]
       /\ remote[uid].data = collectPersonalData(lastCall.rd)

C20_Witness ==
  /\ BackedUpOk
  /\ ~lastCall.digestOk
  /\ remote[uid].dataHash.kind = "fallback_hash"
  /\ budgets # EmptyBudgets

\* C18: every envelope backupToCloud wrote with a working digest primitive
\* has a dataHash that is the digest of the serialisation of its payload, and
\* a restore of such an envelope, unmodified, passes the integrity check.
C18_HashOfOwnPayload ==
  /\ \A u \in DOMAIN backedUp :
       remote[u].dataHash.kind = "sha256"
         => remote[u].dataHash =
              digestStringAsync(JSON_stringify(remote[u].data, "insertion"))
  /\ ( /\ RestoredOk
       /\ uid \in DOMAIN backedUp
       /\ remote[uid].dataHash.kind = "sha256"
       /\ lastCall.digestOk )
       => ~lastCall.warned

\* C14: no two backupToCloud calls and no two restoreFromCloud calls for the
\* same userId are in flight at the same time, whatever started them.
C14_OneAtATime ==
  \A f, g \in flights :
    ( /\ f.phase = "running"
      /\ g.phase = "running"
      /\ f.op = g.op
      /\ f.userId = g.userId )
      => f = g

\* C15: a restore whose 30-second timeout expired before it finished has
\* written nothing to the local store, before the expiry or after it.
C15_TimedOutRestoreWritesNothing ==
  \A f \in flights : f.timedOut => ~f.wrote

\* C27: backupToCloud, hasBackup and getBackupInfo leave the four local
\* collections as they were, whether the call succeeds or fails.
ReadOnlyOps == {"backupToCloud", "hasBackup", "getBackupInfo"}

C27_LocalStoreUntouched ==
  [][lastCall'.op \in ReadOnlyOps => Local' = Local]_vars

C27_Witness ==
  /\ lastCall.op \in ReadOnlyOps
  /\ lastCall.result \in {"false", "null"}
  /\ expenses # <<>>
  /\ budgets # EmptyBudgets

\* The categories the last restoreFromCloud found in the document.
BackupCategories == RestoreSites(lastCall.userId) \ {"emergencyFund"}

LocalOnly == DOMAIN lastCall.pre.budgets \ BackupCategories

LocalOnlyKept ==
  \A c \in LocalOnly : c \in DOMAIN budgets /\ budgets[c] = lastCall.pre.budgets[c]

C22_BackupPersists ==
  [][ /\ \A u \in DOMAIN remote : u \in DOMAIN remote'
      /\ lastCall'.op = "clearBackup"
           => /\ lastCall'.result = "true"
              /\ remote' = remote
              /\ hasBackup(uid, TRUE) = "true" => hasBackup(uid, TRUE)' = "true"
    ]_vars

C22_Witness ==
  /\ lastCall.op = "clearBackup"
  /\ lastCall.result = "true"
  /\ hasBackup(uid, TRUE) = "true"

\* C25: at most one auto-backup timer is pending, it is the one the last
\* scheduleAutoBackup call armed, and every timer-driven backup runs for the
\* userId of the most recent call before it.
LastSchedule == events[Highest(ScheduleIdx)]

C25_SingleTimer ==
  /\ Cardinality(timers) <= 1
  /\ \A t \in timers :
       /\ t.id = backupTimeout
       /\ t.userId = LastSchedule.userId
       /\ t.userEmail = Email(LastSchedule.userId)
  /\ \A b \in BackupIdx :
       \E s \in ScheduleIdx :
         /\ s < b
         /\ \A s2 \in ScheduleIdx : s2 < b => s2 <= s
         /\ events[b].userId = events[s].userId

C25_Witness ==
  /\ BackupIdx # {}
  /\ Cardinality(ScheduleIdx) >= 2
  /\ events[Lowest(ScheduleIdx)].userId # events[Highest(BackupIdx)].userId
  /\ Lowest(BackupIdx) > Highest(ScheduleIdx)

\* C28: initializeUserServices arms the auto-backup timer only after its
\* hasBackup check and its restore, if any, have completed, and it does arm
\* it then, whether a backup existed or not and whatever the restore
\* returned.
InitRestoreOver == LoginFlights # {} /\ \A f \in LoginFlights : f.phase = "done"

C28_ArmedAfterRestore ==
  /\ ServicesInitialized => \A f \in LoginFlights : f.phase = "done"
  /\ (uid # "none" /\ ~ServicesInitialized /\ InitRestoreOver)
       => ENABLED InitializeEnds
  /\ ( /\ uid # "none"
       /\ ~ServicesInitialized
       /\ LoginFlights = {}
       /\ hasBackup(uid, TRUE) = "false" )
       => ENABLED InitializeEnds

C28_Witness ==
  /\ ServicesInitialized
  /\ \E f \in LoginFlights : f.result = "false"

\* The documents the completed backups of userId handed to the remote store.
Uploaded(userId) ==
  UNION {f.doc : f \in {g \in flights : g.op = "backupToCloud"
                                        /\ g.userId = userId}}

\* C21: with backupToCloud calls overlapping, the remote document of a user
\* is at every moment the complete envelope one of the calls uploaded, never
\* a mixture of two.
C21_OneWholeEnvelope ==
  \A u \in DOMAIN remote : remote[u] \in Uploaded(u)

C21_Witness ==
  \E f, g \in flights :
    /\ f.id \in g.concurrent
    /\ f.userId = g.userId
    /\ f.phase = "done" /\ g.phase = "done"
    /\ f.doc # {} /\ g.doc # {} /\ f.doc # g.doc
    /\ \E d \in f.doc, e \in g.doc :
         d.data # e.data /\ d.deviceInfo # e.deviceInfo

\* The values a collection held while the backup was collecting.
Held(f, site) == f.seen[site]

\* What a read of a collection could have returned while the backup was
\* collecting: a value the collection held then, as its getter returns it
\* (the expenses ordered by date, newest first); with failed reads counted,
\* also the default a failed read resolves to.
AsRead(site, stored) ==
  IF site = "expenses" THEN SortByDateDesc(stored) ELSE stored

HeldOrDefault(f, site) ==
  {AsRead(site, v) : v \in f.seen[site]}
    \cup (IF site \in f.rd THEN {SiteDefault(site)} ELSE {})

C29_LocalChangesSurvive ==
  (lastCall.op = "initializeUserServices" /\ lastCall.userId \in DOMAIN backedUp)
    => LET was == lastCall.pre
           kept == backedUp[lastCall.userId]
       IN /\ \A c \in DOMAIN was.budgets :
               (c \notin DOMAIN kept.budgets \/ kept.budgets[c] # was.budgets[c])
                 => (c \in DOMAIN budgets /\ budgets[c] = was.budgets[c])
          /\ \A c \in DOMAIN kept.budgets \ DOMAIN was.budgets :
               c \notin DOMAIN budgets
          /\ was.emergencyFund # kept.emergencyFund
               => /\ emergencyFund.target = was.emergencyFund.target
                  /\ emergencyFund.current = was.emergencyFund.current

\* C30: the snapshot stored for a user holds only records written while that
\* user was signed in: the backup of a user who never changed anything on
\* the device holds no ledger entry, category limit, savings target or goal.
C30_OnlyOwnRecords ==
  \A u \in DOMAIN backedUp :
    u \notin changedBy
      => /\ remote[u].data.expenses = <<>>
         /\ DOMAIN remote[u].data.budgets = {}
         /\ remote[u].data.emergencyFund.target = JsNumber(0)
         /\ remote[u].data.emergencyFund.current = JsNumber(0)
         /\ remote[u].data.savingsGoals = <<>>

\* C23: in the encoded variant, a restoreFromCloud(u, email) of the document a
\* successful backupToCloud(u, email) stored derives the key that backup
\* used, decodes encryptedData to the very text that was backed up, passes
\* the integrity check and returns true.
C23_EncodingRoundTrips ==
  ( /\ lastCall.op = "restoreFromCloud"
    /\ lastCall.userId \in DOMAIN backedUp )
    => /\ lastCall.info.key = backedUp[lastCall.userId].key
       /\ lastCall.info.decrypted = Text(backedUp[lastCall.userId].dataString)
       /\ lastCall.info.checked
       /\ lastCall.result = "true"

====
